---- MODULE Spec2Model ----
(***************************************************************************)
(* Health monitoring system: the ingestion path                           *)
(*   record_vital_signs -> detect_anomalies -> check_and_create_alerts     *)
(* (src/app/api/patients.py, src/app/services/anomaly_detection.py,       *)
(* src/app/services/alert_service.py) and the alert API                   *)
(* (src/app/api/alerts.py), over the tables of src/app/database.py.       *)
(*                                                                         *)
(* Time is counted in ticks of 30 minutes.  A request handler is split at *)
(* its awaits (patients.py:133 and :138): these are the points where the  *)
(* event loop may run another request; the code between two awaits is one *)
(* atomic action.                                                          *)
(***************************************************************************)
EXTENDS Integers, Sequences, FiniteSets, TLC

VARIABLES now, patients, vitals, configs, thresholds, anomalies, alerts,
          notified, reqs, resp

vars == <<now, patients, vitals, configs, thresholds, anomalies, alerts,
          notified, reqs, resp>>

(***************************************************************************)
(* Bounds of the model                                                     *)
(***************************************************************************)
MaxTime == 3
MaxIngest == 2
MaxAlerts == 2
MaxConfigs == 2
\* The rows that the integration endpoints store
MaxExternal == 1

(***************************************************************************)
(* Program constants                                                       *)
(***************************************************************************)
\* timedelta(hours=1), in ticks of 30 minutes
Hour == 2
\* timedelta(days=7), in ticks of 30 minutes
Week == 336
\* len(historical_vitals) < 10
MinHistory == 10
\* len(metric_data) < 5
MinMetricData == 5

\* Python's None (every modelled number is >= 0)
None == 0 - 1

INFO == "INFO"
WARNING == "WARNING"
CRITICAL == "CRITICAL"

Patients == {"P1", "P2"}

\* The keys of vitals_data that the detectors iterate over, in the order of
\* the dict (patients.py:122-124): the fields of the schema, then patient_id.
\* The other metrics and device_id are None in every sample of the model;
\* patient_id stands for the keys that have a value and no threshold entry
\* (patient_id, timestamp).
MetricOrder == <<"heart_rate", "spo2", "patient_id">>
Metrics == {"heart_rate", "spo2"}

\* The columns of the DataFrame of the history (anomaly_detection.py:75-82)
DfColumns == {"heart_rate", "spo2"}

DefaultThresholds ==
    [heart_rate |-> [min |-> 50, max |-> 120],
     spo2       |-> [min |-> 90, max |-> 100]]

(***************************************************************************)
(* Inputs                                                                  *)
(***************************************************************************)
\* Bodies of POST /patients/{id}/vitals
Samples ==
    { [heart_rate |-> 130,  spo2 |-> None],
      [heart_rate |-> 130,  spo2 |-> 85],
      [heart_rate |-> 180,  spo2 |-> 80] }

\* Bodies of POST /patients/{id}/vitals around the spo2 bounds that the
\* configurations below set
ConfigSamples ==
    { [heart_rate |-> None, spo2 |-> 93],
      [heart_rate |-> None, spo2 |-> 99] }

\* Bodies of POST /alerts/configurations/ (patient_id is chosen separately)
ConfigInputs ==
    { [metric_name |-> "spo2", min_threshold |-> 94, max_threshold |-> 100,
       notification_email |-> "ward@example.org"],
      [metric_name |-> "spo2", min_threshold |-> 94, max_threshold |-> None,
       notification_email |-> ""],
      [metric_name |-> "spo2", min_threshold |-> None, max_threshold |-> 98,
       notification_email |-> ""] }

\* Bodies of POST /alerts/configurations/ with one bound, the other bound,
\* and a min_threshold above the max_threshold (AlertConfigurationBase
\* constrains neither), and a sample inside the default range of spo2
OverrideConfigInputs ==
    { [metric_name |-> "spo2", min_threshold |-> 94, max_threshold |-> None,
       notification_email |-> ""],
      [metric_name |-> "spo2", min_threshold |-> None, max_threshold |-> 98,
       notification_email |-> ""],
      [metric_name |-> "spo2", min_threshold |-> 96, max_threshold |-> 94,
       notification_email |-> ""] }

OverrideSamples == { [heart_rate |-> None, spo2 |-> 93] }

\* Query parameter severity of POST /alerts/send-test
TestSeverities == {"info"}

\* The values of acknowledged_by of the requests of acknowledge_alert
Users == {"nurse", "doctor"}

\* The device_id of a row whose column is NULL
NoDevice == "null"

\* Nine earlier readings of a patient, all inside the default ranges
BaselineRow(p) ==
    [patient_id |-> p, timestamp |-> 0, heart_rate |-> 75, spo2 |-> 97,
     device_id |-> NoDevice]
Baseline(p) == [i \in 1..9 |-> BaselineRow(p)]

\* Bodies of POST /patients/{id}/vitals for the detectors: values inside,
\* on and outside the default bounds, and a missing heart rate
DetectSamples ==
    { [heart_rate |-> 130,  spo2 |-> 88],
      [heart_rate |-> 75,   spo2 |-> 80],
      [heart_rate |-> 120,  spo2 |-> 90],
      [heart_rate |-> None, spo2 |-> 87],
      [heart_rate |-> 180,  spo2 |-> 85],
      [heart_rate |-> None, spo2 |-> 94] }

\* A body of POST /alerts/configurations/ whose range is a single point
DetectConfigInputs ==
    { [metric_name |-> "spo2", min_threshold |-> 95, max_threshold |-> 95,
       notification_email |-> ""] }

\* Earlier readings of a patient: none; nine inside the default ranges; these
\* nine and one without a heart rate; ten whose spo2 varies and of which
\* three only have a heart rate; eight recent ones and two that are older
\* than seven days
VariedRow(p, i) ==
    [patient_id |-> p, timestamp |-> 0,
     heart_rate |-> IF i <= 3 THEN 75 ELSE None,
     spo2 |-> IF i % 2 = 1 THEN 96 ELSE 98,
     device_id |-> NoDevice]

OldRow(p) ==
    [patient_id |-> p, timestamp |-> 0 - (Week + 1), heart_rate |-> 60,
     spo2 |-> 92, device_id |-> NoDevice]

Histories(p) ==
    { <<>>,
      Baseline(p),
      Baseline(p) \o <<[BaselineRow(p) EXCEPT !.heart_rate = None]>>,
      [i \in 1..10 |-> VariedRow(p, i)],
      <<OldRow(p), OldRow(p)>> \o SubSeq(Baseline(p), 1, 8) }

\* Bodies of POST /integrations/zepp/ingest: a reading of an existing
\* patient without a timestamp, a reading whose spo2 is below the bound of
\* VitalSignBase and whose timestamp the client sets ahead of the clock, and
\* a reading of a patient_id that no patient has
ZeppPayloads ==
    { [patient_id |-> "P1", timestamp |-> None, heart_rate |-> 180,
       spo2 |-> 80],
      [patient_id |-> "P1", timestamp |-> MaxTime, heart_rate |-> None,
       spo2 |-> 60],
      [patient_id |-> "P3", timestamp |-> None, heart_rate |-> 180,
       spo2 |-> 80] }

\* Query parameters of /integrations/zepp/ingest-simple: the readings above
\* of the existing patient
ZeppSimpleParams == {payload \in ZeppPayloads : payload.patient_id = "P1"}

\* UTC offsets of the server's local timezone, in ticks of 30 minutes: UTC,
\* America/New_York in summer (-4 h) and Asia/Kolkata (+5 h 30)
TzOffsets == {0, 0 - 8, 11}

\* Bodies of POST /alerts/configurations/ that give the alerts of type TEST
\* a notification email, or none
NotifyConfigInputs ==
    { [metric_name |-> "TEST", min_threshold |-> None, max_threshold |-> None,
       notification_email |-> "ward@example.org"],
      [metric_name |-> "TEST", min_threshold |-> None, max_threshold |-> None,
       notification_email |-> ""] }

\* Bodies of POST /patients/{id}/vitals with an INFO and a WARNING anomaly
NotifySamples == { [heart_rate |-> 130, spo2 |-> 85] }

(***************************************************************************)
(* Arithmetic on fractions a/b (b # 0), as the floats of the code compare  *)
(***************************************************************************)
\* a/b > c/d
FracGT(a, b, c, d) == IF b * d > 0 THEN a * d > c * b ELSE a * d < c * b

\* a/b > c/d for a, c >= 0 and b, d > 0, by the continued fractions of the
\* two sides (no product that could leave the machine integers)
RECURSIVE PosFracGT(_, _, _, _)
PosFracGT(a, b, c, d) ==
    IF a \div b # c \div d THEN a \div b > c \div d
    ELSE IF a % b = 0 THEN FALSE
    ELSE IF c % d = 0 THEN TRUE
    ELSE PosFracGT(d, c % d, b, a % b)

RECURSIVE GCD(_, _)
GCD(a, b) == IF b = 0 THEN a ELSE GCD(b, a % b)

Abs(x) == IF x < 0 THEN 0 - x ELSE x

\* a/b in lowest terms with a positive denominator
Frac(a, b) ==
    LET g == GCD(Abs(a), Abs(b))
        s == IF b < 0 THEN 0 - 1 ELSE 1
    IN  [num |-> (s * a) \div g, den |-> (s * b) \div g]

\* min(0.99, a/b)
Cap99(a, b) == IF FracGT(a, b, 99, 100) THEN Frac(99, 100) ELSE Frac(a, b)

(***************************************************************************)
(* AnomalyDetector (anomaly_detection.py)                                  *)
(***************************************************************************)
\* deviation = DevNum / NormalRange
DevNum(value, t) == IF value < t.min THEN t.min - value ELSE value - t.max
NormalRange(t) == t.max - t.min

\* value < threshold["min"] or value > threshold["max"]
Violates(value, t) == value < t.min \/ value > t.max

\* A severity whose two bounds are inclusive
DetermineSeverityInclusive(value, t) ==
    IF ~FracGT(1, 2, DevNum(value, t), NormalRange(t)) THEN CRITICAL
    ELSE IF ~FracGT(1, 5, DevNum(value, t), NormalRange(t)) THEN WARNING
    ELSE INFO

\* Lines 120-135
DetermineSeverity(value, t) ==
    IF FracGT(DevNum(value, t), NormalRange(t), 1, 2) THEN CRITICAL
    ELSE IF FracGT(DevNum(value, t), NormalRange(t), 1, 5) THEN WARNING
    ELSE INFO

\* min(0.99, 0.5 + deviation * 0.5), as the fraction (range + dev) / (2 range)
CalculateConfidence(value, t) ==
    LET c == Cap99(NormalRange(t) + DevNum(value, t), 2 * NormalRange(t))
    IN  [num |-> c.num, den |-> c.den, sqrt |-> FALSE]

\* The text "<metric> is <amount> units below|above normal range
\* (normal: <min>-<max>)", by its parts
GenerateDescription(metric, value, t) ==
    IF value < t.min
    THEN [kind |-> "threshold", metric |-> metric, side |-> "below",
          amount |-> t.min - value, min |-> t.min, max |-> t.max]
    ELSE [kind |-> "threshold", metric |-> metric, side |-> "above",
          amount |-> value - t.max, min |-> t.min, max |-> t.max]

Recommendations ==
    [heart_rate |->
        [INFO     |-> "Monitor heart rate closely",
         WARNING  |-> "Consider immediate medical attention",
         CRITICAL |-> "Seek immediate medical attention"],
     spo2 |->
        [INFO     |-> "Monitor oxygen saturation",
         WARNING  |-> "Check oxygen levels and breathing",
         CRITICAL |-> "Immediate medical attention required - low oxygen"]]

GenerateRecommendation(metric, severity) ==
    IF metric \in DOMAIN Recommendations
    THEN Recommendations[metric][severity]
    ELSE "Monitor closely and consult healthcare provider"

ThresholdAnomaly(metric, value, t) ==
    [anomaly_type     |-> metric,
     confidence_score |-> CalculateConfidence(value, t),
     severity         |-> DetermineSeverity(value, t),
     description      |-> GenerateDescription(metric, value, t),
     recommendation   |->
         GenerateRecommendation(metric, DetermineSeverity(value, t))]

\* The loop of detect_threshold_anomalies over the keys from index i on.  The
\* two tests of line 36 both skip the key; they are written here with the
\* test of the key first.
\* A flagged metric with max = min divides by zero in _determine_severity.
RECURSIVE ThresholdLoop(_, _, _, _)
ThresholdLoop(i, data, th, acc) ==
    IF i > Len(MetricOrder) THEN [raised |-> FALSE, out |-> acc]
    ELSE LET metric == MetricOrder[i]
             value  == data[metric]
         IN  IF metric \notin DOMAIN th \/ value = None
             THEN ThresholdLoop(i + 1, data, th, acc)
             ELSE IF ~Violates(value, th[metric])
             THEN ThresholdLoop(i + 1, data, th, acc)
             ELSE IF NormalRange(th[metric]) = 0
             THEN [raised |-> TRUE, out |-> <<>>]
             ELSE ThresholdLoop(i + 1, data, th,
                      Append(acc, ThresholdAnomaly(metric, value, th[metric])))

\* A threshold detector that adapts: after a run, the range of a flagged
\* metric is the point of the value it flagged
RECURSIVE AdaptThresholds(_, _)
AdaptThresholds(out, th) ==
    IF out = <<>> THEN th
    ELSE LET d == Head(out).description
             v == IF d.side = "below" THEN d.min - d.amount
                  ELSE d.max + d.amount
         IN  AdaptThresholds(Tail(out),
                 [th EXCEPT ![d.metric] = [min |-> v, max |-> v + 1]])

DetectThresholdAnomaliesAdaptive(data, th) ==
    LET res == ThresholdLoop(1, data, th, <<>>)
    IN  [raised |-> res.raised, out |-> res.out,
         thresholds |-> AdaptThresholds(res.out, th)]

\* detect_threshold_anomalies (lines 31-55): whether it raised, the list it
\* returns, and self.thresholds after the run, which the method only reads
DetectThresholdAnomalies(data, th) ==
    LET res == ThresholdLoop(1, data, th, <<>>)
    IN  [raised |-> res.raised, out |-> res.out, thresholds |-> th]

RECURSIVE SeqSum(_)
SeqSum(s) == IF s = <<>> THEN 0 ELSE Head(s) + SeqSum(Tail(s))

RECURSIVE SeqSumSq(_)
SeqSumSq(s) == IF s = <<>> THEN 0 ELSE Head(s) * Head(s) + SeqSumSq(Tail(s))

\* db.query(VitalSign).filter(patient_id, start_time <= timestamp <= end_time)
HistoricalVitals(vt, p, t) ==
    SelectSeq(vt, LAMBDA v : v.patient_id = p /\ v.timestamp >= t - Week
                             /\ v.timestamp <= t)

\* df[metric].dropna()
RECURSIVE MetricData(_, _)
MetricData(hist, metric) ==
    IF hist = <<>> THEN <<>>
    ELSE IF Head(hist)[metric] = None THEN MetricData(Tail(hist), metric)
    ELSE <<Head(hist)[metric]>> \o MetricData(Tail(hist), metric)

\* z^2 = ZNum / ZDen for the sample standard deviation (pandas: ddof = 1);
\* ZDen = 0 exactly when std = 0
ZNum(d, x) == (Len(d) - 1) * (Len(d) * x - SeqSum(d)) * (Len(d) * x - SeqSum(d))
ZDen(d) == Len(d) * (Len(d) * SeqSumSq(d) - SeqSum(d) * SeqSum(d))

\* z_score > k/m  for k, m > 0
ZGT(z2, k, m) == PosFracGT(z2.num, z2.den, k * k, m * m)

\* A statistical severity with its upper bound at 3.5
DetermineStatisticalSeverityHigh(z2) ==
    IF ZGT(z2, 7, 2) THEN CRITICAL ELSE WARNING

\* Lines 137-144
DetermineStatisticalSeverity(z2) ==
    IF ZGT(z2, 3, 1) THEN CRITICAL
    ELSE IF ZGT(z2, 5, 2) THEN WARNING
    ELSE INFO

\* min(0.99, z_score / 3.0): z / 3 > 0.99 iff z > 297/100; otherwise the
\* square root of z^2 / 9
StatisticalConfidence(z2) ==
    IF ZGT(z2, 297, 100) THEN [num |-> 99, den |-> 100, sqrt |-> FALSE]
    ELSE [num |-> Frac(z2.num, 9 * z2.den).num,
          den |-> Frac(z2.num, 9 * z2.den).den, sqrt |-> TRUE]

StatisticalAnomaly(metric, value, d) ==
    LET z2 == Frac(ZNum(d, value), ZDen(d))
        severity == DetermineStatisticalSeverity(z2)
    IN  [anomaly_type     |-> metric \o "_statistical",
         confidence_score |-> StatisticalConfidence(z2),
         severity         |-> severity,
         description      |->
             [kind |-> "statistical", metric |-> metric, z2 |-> z2,
              current |-> value, sum |-> SeqSum(d), count |-> Len(d)],
         recommendation   |-> GenerateRecommendation(metric, severity)]

\* A loop that ends at the first metric with too little or constant history
RECURSIVE StatisticalLoopStop(_, _, _, _)
StatisticalLoopStop(i, data, hist, acc) ==
    IF i > Len(MetricOrder) THEN acc
    ELSE LET metric == MetricOrder[i]
             value  == data[metric]
             d      == MetricData(hist, metric)
         IN  IF metric \notin DfColumns \/ value = None
             THEN StatisticalLoopStop(i + 1, data, hist, acc)
             ELSE IF Len(d) < MinMetricData \/ ZDen(d) = 0
             THEN acc
             ELSE IF ZGT(Frac(ZNum(d, value), ZDen(d)), 5, 2)
             THEN StatisticalLoopStop(i + 1, data, hist,
                      Append(acc, StatisticalAnomaly(metric, value, d)))
             ELSE StatisticalLoopStop(i + 1, data, hist, acc)

\* Lines 85-116: the loop over the keys of the sample from index i on
RECURSIVE StatisticalLoop(_, _, _, _)
StatisticalLoop(i, data, hist, acc) ==
    IF i > Len(MetricOrder) THEN acc
    ELSE LET metric == MetricOrder[i]
             value  == data[metric]
             d      == MetricData(hist, metric)
         IN  IF metric \notin DfColumns \/ value = None
             THEN StatisticalLoop(i + 1, data, hist, acc)
             ELSE IF Len(d) < MinMetricData
             THEN StatisticalLoop(i + 1, data, hist, acc)
             ELSE IF ZDen(d) = 0
             THEN StatisticalLoop(i + 1, data, hist, acc)
             ELSE IF ZGT(Frac(ZNum(d, value), ZDen(d)), 5, 2)
             THEN StatisticalLoop(i + 1, data, hist,
                      Append(acc, StatisticalAnomaly(metric, value, d)))
             ELSE StatisticalLoop(i + 1, data, hist, acc)

\* A detector that does not look at the size of the history
DetectStatisticalAnomaliesUngated(vt, p, data, t) ==
    StatisticalLoop(1, data, HistoricalVitals(vt, p, t), <<>>)

\* Lines 57-118
DetectStatisticalAnomalies(vt, p, data, t) ==
    IF Len(HistoricalVitals(vt, p, t)) < MinHistory THEN <<>>
    ELSE StatisticalLoop(1, data, HistoricalVitals(vt, p, t), <<>>)

(***************************************************************************)
(* detect_anomalies (anomaly_detection.py:209-256)                         *)
(***************************************************************************)
\* Lines 221-226: the active configurations of the patient are written into
\* the thresholds of the one detector of the process, row by row.
RECURSIVE ApplyConfigs(_, _, _)
ApplyConfigs(th, rows, p) ==
    IF rows = <<>> THEN th
    ELSE LET c == Head(rows)
             m == c.metric_name
             applies == c.patient_id = p /\ c.is_active /\ m \in DOMAIN th
             th1 == IF ~applies THEN th
                    ELSE [th EXCEPT ![m] =
                            [min |-> IF c.min_threshold # None
                                     THEN c.min_threshold ELSE @.min,
                             max |-> IF c.max_threshold # None
                                     THEN c.max_threshold ELSE @.max]]
         IN  ApplyConfigs(th1, Tail(rows), p)

\* Lines 214-226: the threshold map the detectors of this call read
EffectiveThresholds(th, rows, p) == ApplyConfigs(th, rows, p)

\* Lines 238-245: Anomaly(patient_id, timestamp=utcnow(), **anomaly_data)
AnomalyRows(all, p, t) ==
    [i \in 1..Len(all) |->
        [patient_id       |-> p,
         timestamp        |-> t,
         anomaly_type     |-> all[i].anomaly_type,
         confidence_score |-> all[i].confidence_score,
         severity         |-> all[i].severity,
         description      |-> all[i].description,
         recommendation   |-> all[i].recommendation]]

\* A persistence gated by the alert policy: only the rows an alert could
\* come from are kept
PersistAnomaliesGated(rows, failAt) ==
    IF failAt > 0 THEN <<>>
    ELSE SelectSeq(rows, LAMBDA a : a.severity \in {WARNING, CRITICAL})

\* Lines 238-256: the rows the call leaves in the table and returns.  The
\* rows are added to the session and committed together; failAt > 0 is a
\* database error on the failAt-th row, which raises out of the commit into
\* the handler of line 253: rollback, return [].
PersistAnomalies(rows, failAt) == IF failAt > 0 THEN <<>> ELSE rows

(***************************************************************************)
(* AlertService (alert_service.py)                                         *)
(***************************************************************************)
\* Whether the name timedelta is bound in the module: line 11 imports only
\* datetime, and the import of line 212 is local to get_alert_statistics.
TimedeltaBound == FALSE

\* A severity gate that lets every severity through
AlertEligibleAny(severity) == severity \in {INFO, WARNING, CRITICAL}

\* Line 37
AlertEligible(severity) == severity \in {WARNING, CRITICAL}

\* A lookup that runs and never matches a row
RecentAlertNone(al, p, ty, t) == [raised |-> FALSE, found |-> FALSE]

\* Lines 39-43: the query for a recent alert of the pair.  Evaluating its
\* filter raises NameError when timedelta is unbound.
RecentAlert(al, p, ty, t) ==
    IF ~TimedeltaBound THEN [raised |-> TRUE, found |-> FALSE]
    ELSE [raised |-> FALSE,
          found  |-> \E i \in 1..Len(al) :
                        /\ al[i].patient_id = p
                        /\ al[i].alert_type = ty
                        /\ al[i].timestamp >= t - Hour]

SeverityText ==
    [INFO |-> "Information", WARNING |-> "Warning",
     CRITICAL |-> "Critical Alert"]

\* Lines 73-85: "<severity text>: <description> Recommendation: <text>"
GenerateAlertMessage(anomaly) ==
    [severity_text  |-> SeverityText[anomaly.severity],
     description    |-> anomaly.description,
     recommendation |-> anomaly.recommendation]

\* Lines 47-53; is_sent takes the column's default
NewAlert(p, anomaly, t) ==
    [patient_id |-> p,
     alert_type |-> anomaly.anomaly_type,
     severity   |-> anomaly.severity,
     message    |-> GenerateAlertMessage(anomaly),
     timestamp  |-> t,
     is_sent    |-> FALSE,
     is_acknowledged |-> FALSE,
     acknowledged_by |-> "",
     acknowledged_at |-> None]

\* Lines 35-56: the loop over the anomalies; acc is the list alerts.  The
\* session does not autoflush (database.py:21), so the query reads the
\* committed table al only.
RECURSIVE AlertLoop(_, _, _, _, _)
AlertLoop(anoms, al, p, t, acc) ==
    IF anoms = <<>> THEN [raised |-> FALSE, alerts |-> acc]
    ELSE IF ~AlertEligible(Head(anoms).severity)
    THEN AlertLoop(Tail(anoms), al, p, t, acc)
    ELSE IF RecentAlert(al, p, Head(anoms).anomaly_type, t).raised
    THEN [raised |-> TRUE, alerts |-> <<>>]
    ELSE IF RecentAlert(al, p, Head(anoms).anomaly_type, t).found
    THEN AlertLoop(Tail(anoms), al, p, t, acc)
    ELSE AlertLoop(Tail(anoms), al, p, t,
                   Append(acc, NewAlert(p, Head(anoms), t)))

\* Lines 103-126: what the console notification prints
ConsoleNotification(alert) ==
    [patient_id |-> alert.patient_id, alert_type |-> alert.alert_type,
     severity |-> alert.severity]

\* Query parameter severity.upper() (alerts.py:141)
Upper(s) ==
    IF s = "info" THEN INFO
    ELSE IF s = "warning" THEN WARNING
    ELSE IF s = "critical" THEN CRITICAL
    ELSE s

(***************************************************************************)
(* State                                                                   *)
(***************************************************************************)
Slots == 1..MaxIngest

\* status is the HTTP status of the response, 0 while there is none
IdleRequest ==
    [pc |-> "idle", patient_id |-> "", vitals_data |-> <<>>,
     all_anomalies |-> <<>>, fail_at |-> 0, anomalies |-> <<>>,
     alerts |-> <<>>, error |-> "none", status |-> 0]

\* The response of the last call of create_patient or acknowledge_alert:
\* the operation, the patient_id or alert_id and acknowledged_by of the
\* request, and the HTTP status; NoResponse before any such call
NoResponse ==
    [op |-> "", patient_id |-> "", alert_id |-> 0, acknowledged_by |-> "",
     status |-> 0]

\* The database after init_db and the creation of the two patients, with no
\* reading yet or with nine readings of the first patient, all inside the
\* default ranges.  The configuration rows of init_db belong to patient_id
\* "DEFAULT" (database.py:147-183) and are read by no query for another
\* patient_id.
Init ==
    /\ now = 0
    /\ patients = Patients
    /\ vitals \in {<<>>, Baseline("P1")}
    /\ configs = <<>>
    /\ thresholds = DefaultThresholds
    /\ anomalies = <<>>
    /\ alerts = <<>>
    /\ notified = <<>>
    /\ reqs = [r \in Slots |-> IdleRequest]
    /\ resp = NoResponse

(***************************************************************************)
(* Actions                                                                 *)
(***************************************************************************)
\* The clock advances by 30 minutes.  A request is handled in far less than
\* that: the clock advances between requests.
Tick ==
    /\ now < MaxTime
    /\ \A r \in Slots : reqs[r].pc \in {"idle", "done"}
    /\ now' = now + 1
    /\ UNCHANGED <<patients, vitals, configs, thresholds, anomalies, alerts,
                   notified, reqs, resp>>

\* A lookup of the existing configuration that finds no row
ConfigIndexNone(rows, p, m) == {}

\* create_alert_configuration (alerts.py:192-230)
ConfigIndex(rows, p, m) ==
    {i \in 1..Len(rows) : rows[i].patient_id = p /\ rows[i].metric_name = m}

FirstIndex(S) == CHOOSE i \in S : \A j \in S : i <= j

ConfigRow(p, c, active) ==
    [patient_id |-> p, metric_name |-> c.metric_name,
     min_threshold |-> c.min_threshold, max_threshold |-> c.max_threshold,
     is_active |-> active, notification_email |-> c.notification_email]

CreateAlertConfiguration(p, c, active) ==
    /\ IF ConfigIndex(configs, p, c.metric_name) # {}
       THEN configs' = [configs EXCEPT
                ![FirstIndex(ConfigIndex(configs, p, c.metric_name))] =
                    ConfigRow(p, c, active)]
       ELSE /\ Len(configs) < MaxConfigs
            /\ configs' = Append(configs, ConfigRow(p, c, active))
    /\ UNCHANGED <<now, patients, vitals, thresholds, anomalies, alerts,
                   notified, reqs, resp>>

\* vitals_data = vitals.dict() plus patient_id (patients.py:122-124)
VitalsData(p, s) ==
    [heart_rate |-> s.heart_rate, spo2 |-> s.spo2, patient_id |-> p]

\* record_vital_signs up to its first await (patients.py:109-129): 404 for
\* an unknown patient, otherwise the sample is committed.
RecordVitals(r, p, s) ==
    /\ reqs[r].pc = "idle"
    /\ \A q \in Slots : q < r => reqs[q].pc # "idle"
    /\ IF p \notin patients
       THEN /\ reqs' = [reqs EXCEPT ![r] =
                   [IdleRequest EXCEPT !.pc = "done", !.patient_id = p,
                                       !.vitals_data = VitalsData(p, s),
                                       !.error = "404", !.status = 404]]
            /\ UNCHANGED vitals
       ELSE /\ vitals' = Append(vitals,
                   [patient_id |-> p, timestamp |-> now,
                    heart_rate |-> s.heart_rate, spo2 |-> s.spo2,
                    device_id |-> NoDevice])
            /\ reqs' = [reqs EXCEPT ![r] =
                   [IdleRequest EXCEPT !.pc = "detect", !.patient_id = p,
                                       !.vitals_data = VitalsData(p, s)]]
    /\ UNCHANGED <<now, patients, configs, thresholds, anomalies, alerts,
                   notified, resp>>

\* The rows of the vital sign table that an integration endpoint stored
ExternalRows(vt) ==
    {k \in 1..Len(vt) : vt[k].device_id \in {"zepp", "withings"}}

\* The timestamp of a row of zepp_ingest (integrations.py:334-343): the one
\* of the request, utcnow() when the request has none
ZeppTimestamp(ts, t) == IF ts = None THEN t ELSE ts

\* zepp_ingest (integrations.py:313-362): the row is committed for whatever
\* patient_id the payload names; no patient is looked up, no bound of
\* VitalSignBase applies, and neither detect_anomalies nor
\* check_and_create_alerts is called
ZeppIngest(payload) ==
    /\ Cardinality(ExternalRows(vitals)) < MaxExternal
    /\ vitals' = Append(vitals,
           [patient_id |-> payload.patient_id,
            timestamp  |-> ZeppTimestamp(payload.timestamp, now),
            heart_rate |-> payload.heart_rate,
            spo2       |-> payload.spo2,
            device_id  |-> "zepp"])
    /\ UNCHANGED <<now, patients, configs, thresholds, anomalies, alerts,
                   notified, reqs, resp>>

\* The timestamp of a row of zepp_ingest_simple (integrations.py:380, 383):
\* utcfromtimestamp(ts) of the request's epoch seconds, which is the instant
\* the client gave; without one, ts = int(datetime.utcnow().timestamp()),
\* where timestamp() reads the naive utcnow() as local time, so that the
\* stored instant is utcnow() minus the UTC offset of the server's timezone
ZeppSimpleTimestamp(ts, t, offset) == IF ts = None THEN t - offset ELSE ts

\* zepp_ingest_simple (integrations.py:366-401): the row from query
\* parameters; offset is the UTC offset of the server's local timezone at
\* the call
ZeppIngestSimple(patient_id, timestamp, heart_rate, spo2, offset) ==
    /\ Cardinality(ExternalRows(vitals)) < MaxExternal
    /\ vitals' = Append(vitals,
           [patient_id |-> patient_id,
            timestamp  |-> ZeppSimpleTimestamp(timestamp, now, offset),
            heart_rate |-> heart_rate,
            spo2       |-> spo2,
            device_id  |-> "zepp"])
    /\ UNCHANGED <<now, patients, configs, thresholds, anomalies, alerts,
                   notified, reqs, resp>>

\* withings_sync (integrations.py:114-196) when the provider returns one
\* activity of date ts: a row without heart rate and spo2 is committed for
\* the patient_id of the request, which is not looked up
WithingsSync(patient_id, ts) ==
    /\ Cardinality(ExternalRows(vitals)) < MaxExternal
    /\ vitals' = Append(vitals,
           [patient_id |-> patient_id, timestamp |-> ts,
            heart_rate |-> None, spo2 |-> None, device_id |-> "withings"])
    /\ UNCHANGED <<now, patients, configs, thresholds, anomalies, alerts,
                   notified, reqs, resp>>

\* The status of the response of record_vital_signs for an existing patient
\* (patients.py:131-143): detect_anomalies and check_and_create_alerts catch
\* their own exceptions, the handler catches and logs what is left, and the
\* stored sample is returned.
ResponseStatusPropagate(error) == IF error = "none" THEN 200 ELSE 500

ResponseStatus(error) == 200

\* await detect_anomalies(...) (patients.py:133, anomaly_detection.py:209-256)
DetectAnomalies(r, failAt) ==
    /\ reqs[r].pc = "detect"
    /\ LET p   == reqs[r].patient_id
           th  == EffectiveThresholds(thresholds, configs, p)
           thr == DetectThresholdAnomalies(reqs[r].vitals_data, th)
           all == thr.out \o
                  DetectStatisticalAnomalies(vitals, p, reqs[r].vitals_data, now)
           rows == PersistAnomalies(AnomalyRows(all, p, now), failAt)
       IN  /\ thresholds' = thr.thresholds
           /\ IF thr.raised
              THEN /\ failAt = 0
                   /\ UNCHANGED anomalies
                   /\ reqs' = [reqs EXCEPT ![r].pc = "done",
                                           ![r].error = "detect",
                                           ![r].status =
                                               ResponseStatus("detect")]
              ELSE /\ failAt \in 0..Len(all)
                   /\ anomalies' = anomalies \o rows
                   /\ reqs' = [reqs EXCEPT
                          ![r].pc = IF rows = <<>> THEN "done" ELSE "alerts",
                          ![r].all_anomalies = all,
                          ![r].fail_at = failAt,
                          ![r].anomalies = rows,
                          ![r].error = IF failAt > 0 THEN "detect" ELSE "none",
                          ![r].status =
                              IF rows # <<>> THEN 0
                              ELSE ResponseStatus(IF failAt > 0 THEN "detect"
                                                  ELSE "none")]
    /\ UNCHANGED <<now, patients, vitals, configs, alerts, notified, resp>>

\* _send_email_notification (alert_service.py:128-186): what becomes of the
\* email of an alert.  The configuration row is the first of the pair
\* (patient_id, metric_name = alert_type), active or not; "" is an email that
\* is None or empty.
EmailDelivery(rows, pats, alert) ==
    IF alert.patient_id \notin pats THEN "no_patient"
    ELSE IF ConfigIndex(rows, alert.patient_id, alert.alert_type) = {}
    THEN "skipped"
    ELSE IF rows[FirstIndex(ConfigIndex(rows, alert.patient_id,
                                        alert.alert_type))].notification_email
            = ""
    THEN "skipped"
    ELSE "sent"

\* send_alert_notification (alert_service.py:87-101): the console
\* notification, then the email.  consoleOk = FALSE is a console notification
\* that raises (the print to a stream that cannot take it): the call logs the
\* error and returns False, and the email is not attempted.
Notification(rows, pats, alert, consoleOk) ==
    [patient_id |-> ConsoleNotification(alert).patient_id,
     alert_type |-> ConsoleNotification(alert).alert_type,
     severity   |-> ConsoleNotification(alert).severity,
     returned   |-> consoleOk,
     email      |-> IF consoleOk THEN EmailDelivery(rows, pats, alert)
                    ELSE "failed"]

\* Lines 63-64: one call of send_alert_notification per alert, in order
RECURSIVE Notifications(_, _, _, _)
Notifications(rows, pats, al, consoleOk) ==
    IF al = <<>> THEN <<>>
    ELSE <<Notification(rows, pats, Head(al), consoleOk)>>
         \o Notifications(rows, pats, Tail(al), consoleOk)

\* await check_and_create_alerts(...) (patients.py:138,
\* alert_service.py:30-71).  The alerts are committed, then notified; the
\* is_sent an email notification sets on the object is committed by nobody
\* and is lost with the session.
CheckAndCreateAlerts(r, consoleOk) ==
    /\ reqs[r].pc = "alerts"
    /\ LET res == AlertLoop(reqs[r].anomalies, alerts, reqs[r].patient_id,
                            now, <<>>)
       IN  /\ alerts' = alerts \o res.alerts
           /\ notified' = notified \o
                  Notifications(configs, patients, res.alerts, consoleOk)
           /\ reqs' = [reqs EXCEPT
                  ![r].pc = "done",
                  ![r].alerts = res.alerts,
                  ![r].error = IF res.raised THEN "alerts" ELSE "none",
                  ![r].status = ResponseStatus(IF res.raised THEN "alerts"
                                               ELSE "none")]
    /\ UNCHANGED <<now, patients, vitals, configs, thresholds, anomalies, resp>>

\* send_test_alert (alerts.py:128-168): the alert is committed, notified, and
\* marked sent whatever the notification returned.
SendTestAlert(p, severity, consoleOk) ==
    /\ Len(alerts) < MaxAlerts
    /\ LET test_alert ==
               [patient_id |-> p, alert_type |-> "TEST",
                severity |-> Upper(severity),
                message |-> "Test alert message",
                timestamp |-> now, is_sent |-> FALSE,
                is_acknowledged |-> FALSE, acknowledged_by |-> "",
                acknowledged_at |-> None]
       IN  /\ alerts' = Append(alerts, [test_alert EXCEPT !.is_sent = TRUE])
           /\ notified' = Append(notified,
                  Notification(configs, patients, test_alert, consoleOk))
    /\ UNCHANGED <<now, patients, vitals, configs, thresholds, anomalies, reqs, resp>>

\* A mutant of the status of acknowledge_alert: no test of is_acknowledged
AcknowledgeStatusRepeat(al, alert_id) ==
    IF alert_id \notin 1..Len(al) THEN 404 ELSE 200

\* The status of the response of acknowledge_alert (alerts.py:94-106): the
\* id of an alert is its position in the table; the HTTPException of lines
\* 97-100 and 102-106 is re-raised by lines 118-119
AcknowledgeStatus(al, alert_id) ==
    IF alert_id \notin 1..Len(al) THEN 404
    ELSE IF al[alert_id].is_acknowledged THEN 400
    ELSE 200

\* acknowledge_alert (alerts.py:85-126)
AcknowledgeAlert(alert_id, by) ==
    LET status == AcknowledgeStatus(alerts, alert_id)
    IN  /\ resp' = [op |-> "acknowledge_alert", patient_id |-> "",
                    alert_id |-> alert_id, acknowledged_by |-> by,
                    status |-> status]
        /\ alerts' = IF status = 200
                        THEN [alerts EXCEPT ![alert_id] =
                                 [@ EXCEPT !.is_acknowledged = TRUE,
                                           !.acknowledged_by = by,
                                           !.acknowledged_at = now]]
                        ELSE alerts
        /\ UNCHANGED <<now, patients, vitals, configs, thresholds, anomalies,
                       notified, reqs>>

\* The status of the response of create_patient (patients.py:30-55): the
\* HTTPException(400) of lines 34-38 is raised inside the try block, whose
\* only handler is the except Exception of line 49, which rolls back and
\* raises HTTPException(500)
CreatePatientStatus(pats, p) == IF p \in pats THEN 500 ELSE 200

\* create_patient (patients.py:22-55)
CreatePatient(p) ==
    LET status == CreatePatientStatus(patients, p)
    IN  /\ resp' = [op |-> "create_patient", patient_id |-> p,
                    alert_id |-> 0, acknowledged_by |-> "",
                    status |-> status]
        /\ patients' = IF status = 200 THEN patients \cup {p} ELSE patients
        /\ UNCHANGED <<now, vitals, configs, thresholds, anomalies, alerts,
                       notified, reqs>>

\* The ingestion path, the clock and the alert API, with the thresholds of
\* the process left at their defaults (no configuration is ever posted), a
\* database that does not fail and a console that takes every notification
Next ==
    \/ Tick
    \/ \E r \in Slots, p \in Patients, s \in Samples : RecordVitals(r, p, s)
    \/ \E r \in Slots : DetectAnomalies(r, 0)
    \/ \E r \in Slots : CheckAndCreateAlerts(r, TRUE)
    \/ \E p \in Patients, severity \in TestSeverities :
           SendTestAlert(p, severity, TRUE)

Spec == Init /\ [][Next]_vars

\* The ingestion path and the configuration API at one instant, with a
\* database that does not fail
NextConfig ==
    \/ \E p \in Patients, c \in ConfigInputs, active \in BOOLEAN :
           CreateAlertConfiguration(p, c, active)
    \/ \E r \in Slots, p \in Patients, s \in ConfigSamples :
           RecordVitals(r, p, s)
    \/ \E r \in Slots : DetectAnomalies(r, 0)
    \/ \E r \in Slots : CheckAndCreateAlerts(r, TRUE)

SpecConfig == Init /\ [][NextConfig]_vars

\* The ingestion path and the integration endpoints at one instant, with a
\* database that may fail on any one row of a commit of anomalies
NextFault ==
    \/ \E r \in Slots, p \in Patients, s \in Samples : RecordVitals(r, p, s)
    \/ \E payload \in ZeppPayloads : ZeppIngest(payload)
    \/ \E params \in ZeppSimpleParams, offset \in TzOffsets :
           ZeppIngestSimple(params.patient_id, params.timestamp,
                            params.heart_rate, params.spo2, offset)
    \/ WithingsSync("P1", 0)
    \/ \E r \in Slots, failAt \in 0..(2 * Cardinality(Metrics)) :
           DetectAnomalies(r, failAt)
    \/ \E r \in Slots : CheckAndCreateAlerts(r, TRUE)

SpecFault == Init /\ [][NextFault]_vars

\* The detectors on their own: one patient with one of several histories,
\* samples around the bounds, a configuration whose range is a point, and
\* the integration endpoints, which store a reading at any moment
InitDetect ==
    /\ now = 0
    /\ patients = Patients
    /\ vitals \in Histories("P1")
    /\ configs = <<>>
    /\ thresholds = DefaultThresholds
    /\ anomalies = <<>>
    /\ alerts = <<>>
    /\ notified = <<>>
    /\ reqs = [r \in Slots |-> IdleRequest]
    /\ resp = NoResponse

NextDetect ==
    \/ \E c \in DetectConfigInputs, active \in BOOLEAN :
           CreateAlertConfiguration("P1", c, active)
    \/ \E payload \in ZeppPayloads : ZeppIngest(payload)
    \/ \E params \in ZeppSimpleParams, offset \in TzOffsets :
           ZeppIngestSimple(params.patient_id, params.timestamp,
                            params.heart_rate, params.spo2, offset)
    \/ WithingsSync("P1", 0)
    \/ \E r \in Slots, s \in DetectSamples : RecordVitals(r, "P1", s)
    \/ \E r \in Slots : DetectAnomalies(r, 0)
    \/ \E r \in Slots : CheckAndCreateAlerts(r, TRUE)

SpecDetect == InitDetect /\ [][NextDetect]_vars

\* The overrides: configurations of both patients are posted, replaced and
\* deactivated between the detection calls of one patient
NextOverride ==
    \/ \E p \in Patients, c \in OverrideConfigInputs, active \in BOOLEAN :
           CreateAlertConfiguration(p, c, active)
    \/ \E r \in Slots, s \in OverrideSamples : RecordVitals(r, "P1", s)
    \/ \E r \in Slots : DetectAnomalies(r, 0)
    \/ \E r \in Slots : CheckAndCreateAlerts(r, TRUE)

SpecOverride == Init /\ [][NextOverride]_vars

\* The patient and alert API from the empty database of init_db: patients
\* are created, test alerts are sent and alerts are acknowledged while the
\* clock advances
InitAdmin ==
    /\ now = 0
    /\ patients = {}
    /\ vitals = <<>>
    /\ configs = <<>>
    /\ thresholds = DefaultThresholds
    /\ anomalies = <<>>
    /\ alerts = <<>>
    /\ notified = <<>>
    /\ reqs = [r \in Slots |-> IdleRequest]
    /\ resp = NoResponse

NextAdmin ==
    \/ Tick
    \/ \E p \in Patients : CreatePatient(p)
    \/ \E p \in Patients, severity \in TestSeverities :
           SendTestAlert(p, severity, TRUE)
    \/ \E alert_id \in 1..(MaxAlerts + 1), by \in Users :
           AcknowledgeAlert(alert_id, by)

SpecAdmin == InitAdmin /\ [][NextAdmin]_vars

\* The notifications: the alert API with a console that may refuse a
\* notification, the configurations that carry the notification email, and
\* the ingestion of one sample
NextNotify ==
    \/ \E c \in NotifyConfigInputs, active \in BOOLEAN :
           CreateAlertConfiguration("P1", c, active)
    \/ \E p \in Patients, severity \in TestSeverities, consoleOk \in BOOLEAN :
           SendTestAlert(p, severity, consoleOk)
    \/ \E r \in Slots, s \in NotifySamples : RecordVitals(r, "P1", s)
    \/ \E r \in Slots : DetectAnomalies(r, 0)
    \/ \E r \in Slots, consoleOk \in BOOLEAN : CheckAndCreateAlerts(r, consoleOk)

SpecNotify == Init /\ [][NextNotify]_vars

(***************************************************************************)
(* Properties                                                              *)
(***************************************************************************)
Eligible(a) == a.severity \in {WARNING, CRITICAL}

\* The alert rows of a (patient_id, alert_type) pair in a table
PairAlerts(al, p, ty) ==
    {j \in 1..Len(al) : al[j].patient_id = p /\ al[j].alert_type = ty}

\* The step of request r that ran check_and_create_alerts
AlertStep(r) == reqs[r].pc = "alerts" /\ reqs'[r].pc = "done"

\* The step of request r that ran detect_anomalies
DetectStep(r) == reqs[r].pc = "detect" /\ reqs'[r].pc # "detect"

\* A request whose detect_anomalies returned rows, and the instant it did
Detected(r) == reqs[r].anomalies # <<>>
DetectedAt(r) == reqs[r].anomalies[1].timestamp

\* The anomaly types of request r that are eligible for an alert
EligibleTypes(r) ==
    {reqs[r].anomalies[i].anomaly_type : i \in
        {k \in 1..Len(reqs[r].anomalies) : Eligible(reqs[r].anomalies[k])}}

\* Whether a row is in a table
InTable(row, table) == \E k \in 1..Len(table) : table[k] = row

\* C1: for every (patient_id, alert_type) pair at most one alert row has a
\* timestamp within the last hour of the current instant.
C1_OneRecentAlertPerPair ==
    \A i, j \in 1..Len(alerts) :
        ( /\ i < j
          /\ alerts[i].patient_id = alerts[j].patient_id
          /\ alerts[i].alert_type = alerts[j].alert_type
          /\ alerts[i].timestamp >= now - Hour )
        => alerts[j].timestamp < now - Hour

\* C2: when check_and_create_alerts is given a WARNING or CRITICAL anomaly
\* of a pair that has no alert row at all, it persists exactly one new alert
\* for the pair, with the message built from the anomaly, and notifies it.
C2_FirstAnomalyCreatesAlert ==
    [][\A r \in Slots : AlertStep(r) =>
         \A i \in 1..Len(reqs[r].anomalies) :
            LET a == reqs[r].anomalies[i]
                p == reqs[r].patient_id
            IN  (Eligible(a) /\ PairAlerts(alerts, p, a.anomaly_type) = {})
                => /\ Cardinality(PairAlerts(alerts', p, a.anomaly_type)) = 1
                   /\ \A j \in PairAlerts(alerts', p, a.anomaly_type) :
                         /\ alerts'[j].message = GenerateAlertMessage(a)
                         /\ alerts'[j].severity = a.severity
                   /\ \E n \in (Len(notified) + 1)..Len(notified') :
                         /\ notified'[n].patient_id = p
                         /\ notified'[n].alert_type = a.anomaly_type
      ]_vars

\* C3: two WARNING-or-higher anomalies of one pair processed one after the
\* other less than an hour apart leave exactly one alert of the pair, made
\* for the first; the second anomaly is in the anomaly table.
C3_SecondWithinHourSuppressed ==
    \A r1, r2 \in Slots :
        ( /\ reqs[r1].pc = "done" /\ reqs[r2].pc = "done"
          /\ Detected(r1) /\ Detected(r2)
          /\ reqs[r1].patient_id = reqs[r2].patient_id
          /\ DetectedAt(r1) < DetectedAt(r2)
          /\ DetectedAt(r2) < DetectedAt(r1) + Hour )
        => \A ty \in EligibleTypes(r1) \cap EligibleTypes(r2) :
              /\ \A i \in 1..Len(reqs[r2].anomalies) :
                    InTable(reqs[r2].anomalies[i], anomalies)
              /\ Cardinality(PairAlerts(alerts, reqs[r1].patient_id, ty)) = 1
              /\ \A j \in PairAlerts(alerts, reqs[r1].patient_id, ty) :
                    alerts[j].timestamp = DetectedAt(r1)

\* C4: two WARNING-or-higher anomalies of one pair processed more than an
\* hour apart leave two alerts of the pair, one for each.
C4_SecondAfterHourAlerts ==
    \A r1, r2 \in Slots :
        ( /\ reqs[r1].pc = "done" /\ reqs[r2].pc = "done"
          /\ Detected(r1) /\ Detected(r2)
          /\ reqs[r1].patient_id = reqs[r2].patient_id
          /\ DetectedAt(r2) > DetectedAt(r1) + Hour )
        => \A ty \in EligibleTypes(r1) \cap EligibleTypes(r2) :
              /\ \E j \in PairAlerts(alerts, reqs[r1].patient_id, ty) :
                    alerts[j].timestamp = DetectedAt(r1)
              /\ \E j \in PairAlerts(alerts, reqs[r1].patient_id, ty) :
                    alerts[j].timestamp = DetectedAt(r2)

\* C5: whatever the interleaving of the ingestions of one patient, no two
\* alerts that ingestion made for one (patient_id, alert_type) pair lie
\* within one hour of each other.
C5_NoDuplicateAlertInWindow ==
    \A i, j \in 1..Len(alerts) :
        ( /\ i < j
          /\ alerts[i].alert_type # "TEST"
          /\ alerts[i].patient_id = alerts[j].patient_id
          /\ alerts[i].alert_type = alerts[j].alert_type )
        => alerts[j].timestamp > alerts[i].timestamp + Hour

\* Two ingestions of one patient that were in flight together (the second
\* one started after the first and detected before it), that share an
\* eligible anomaly type, and that have both run their alert step.
C5_Witness ==
    /\ reqs[1].pc = "done" /\ reqs[2].pc = "done"
    /\ reqs[1].patient_id = reqs[2].patient_id
    /\ EligibleTypes(1) \cap EligibleTypes(2) # {}
    /\ reqs[1].anomalies # reqs[2].anomalies
    /\ anomalies = reqs[2].anomalies \o reqs[1].anomalies
    /\ reqs[1].error = "alerts" /\ reqs[2].error = "alerts"

\* C6: the thresholds a detect_anomalies call applies are the process
\* defaults replaced by the active overrides of the patient of the call, and
\* by nothing else: the call detects what these thresholds detect.
C6_OwnOverridesOnly ==
    [][\A r \in Slots : DetectStep(r) =>
         LET p  == reqs[r].patient_id
             th == ApplyConfigs(DefaultThresholds, configs, p)
         IN  /\ thresholds' = th
             /\ reqs'[r].all_anomalies =
                    DetectThresholdAnomalies(reqs[r].vitals_data, th).out \o
                    DetectStatisticalAnomalies(vitals, p, reqs[r].vitals_data,
                                               now)
      ]_vars

\* The active configuration rows of patient p, and the bound a row sets
ActiveRows(p) ==
    {i \in 1..Len(configs) : configs[i].patient_id = p /\ configs[i].is_active}
BoundOr(bound, default) == IF bound # None THEN bound ELSE default

\* C7: in a patient's detection call, an active override replaces the bounds
\* it gives, and a null bound leaves the default bound of that side.
C7_OverrideReplacesGivenBounds ==
    [][\A r \in Slots : DetectStep(r) =>
         \A i \in ActiveRows(reqs[r].patient_id) :
            LET c == configs[i]
                d == DefaultThresholds[c.metric_name]
            IN  /\ thresholds'[c.metric_name].min = BoundOr(c.min_threshold, d.min)
                /\ thresholds'[c.metric_name].max = BoundOr(c.max_threshold, d.max)
      ]_vars

\* The rows of request r in the anomaly table
Persisted(r, i) == InTable(reqs[r].anomalies[i], anomalies)

\* C8: an INFO anomaly never makes an alert or a notification, whatever the
\* alert table holds: a call with INFO anomalies only returns no alert and
\* never reaches the lookup of a recent alert, no alert or notification of a
\* call has the type of one of its INFO anomalies or the severity INFO, and
\* the INFO anomaly is in the anomaly table.
C8_InfoNeverAlerts ==
    \A r \in Slots : (reqs[r].pc = "done" /\ Detected(r)) =>
        /\ (EligibleTypes(r) = {}) =>
               (reqs[r].alerts = <<>> /\ reqs[r].error = "none")
        /\ \A i \in 1..Len(reqs[r].anomalies) :
              reqs[r].anomalies[i].severity = INFO =>
                 /\ Persisted(r, i)
                 /\ \A k \in 1..Len(reqs[r].alerts) :
                       /\ reqs[r].alerts[k].severity # INFO
                       /\ reqs[r].alerts[k].alert_type #
                              reqs[r].anomalies[i].anomaly_type
                 /\ \A n \in 1..Len(notified) :
                       notified[n].alert_type = "TEST"
                       \/ notified[n].severity # INFO

\* A call with an INFO anomaly only has returned while the alert table held
\* rows, and another call with an INFO and a WARNING anomaly has returned.
C8_Witness ==
    /\ alerts # <<>>
    /\ \E r \in Slots :
          /\ reqs[r].pc = "done" /\ Detected(r) /\ EligibleTypes(r) = {}
          /\ reqs[r].anomalies[1].severity = INFO
    /\ \E r \in Slots :
          /\ reqs[r].pc = "done" /\ Detected(r) /\ EligibleTypes(r) # {}
          /\ reqs[r].anomalies[1].severity = INFO

\* C9: when the database takes the rows, every candidate anomaly of the two
\* detectors is in the anomaly table from the return of detect_anomalies on,
\* whatever the alert step does afterwards (nothing, or an error and a
\* rollback).
C9_CandidatesPersisted ==
    \A r \in Slots :
        (reqs[r].pc \in {"alerts", "done"} /\ reqs[r].error # "404"
            /\ reqs[r].fail_at = 0) =>
        /\ Len(reqs[r].anomalies) = Len(reqs[r].all_anomalies)
        /\ \A i \in 1..Len(reqs[r].anomalies) :
              /\ Persisted(r, i)
              /\ reqs[r].anomalies[i].patient_id = reqs[r].patient_id
              /\ reqs[r].anomalies[i].anomaly_type =
                     reqs[r].all_anomalies[i].anomaly_type
              /\ reqs[r].anomalies[i].severity =
                     reqs[r].all_anomalies[i].severity
              /\ reqs[r].anomalies[i].confidence_score =
                     reqs[r].all_anomalies[i].confidence_score

\* A call whose threshold and statistical candidates, an INFO one among
\* them, stay in the table after its alert step raised and rolled back.
C9_Witness ==
    \E r \in Slots :
        /\ reqs[r].pc = "done" /\ reqs[r].error = "alerts"
        /\ reqs[r].fail_at = 0
        /\ Len(reqs[r].all_anomalies) >= 3
        /\ \A i \in 1..Len(reqs[r].anomalies) : Persisted(r, i)

\* C10: when the database fails on one anomaly row of a sample, the other
\* rows of the sample are persisted and returned.
C10_PartialPersistence ==
    \A r \in Slots :
        (reqs[r].pc \in {"alerts", "done"} /\ reqs[r].fail_at > 0) =>
        \A i \in 1..Len(reqs[r].all_anomalies) :
           i # reqs[r].fail_at =>
              /\ \E k \in 1..Len(anomalies) :
                    /\ anomalies[k].patient_id = reqs[r].patient_id
                    /\ anomalies[k].anomaly_type =
                           reqs[r].all_anomalies[i].anomaly_type
              /\ \E k \in 1..Len(reqs[r].anomalies) :
                    reqs[r].anomalies[k].anomaly_type =
                        reqs[r].all_anomalies[i].anomaly_type

\* C11: when the evaluation of one metric of a sample raises in a detector,
\* every other metric of the sample that is outside its (non-empty) range is
\* still detected and persisted by the call.
C11_OtherMetricsStillDetected ==
    [][\A r \in Slots : DetectStep(r) =>
         \A m \in Metrics :
            LET v == reqs[r].vitals_data[m]
                t == thresholds'[m]
            IN  (v # None /\ (v < t.min \/ v > t.max) /\ t.max # t.min)
                => \E k \in 1..Len(anomalies') :
                      /\ anomalies'[k].patient_id = reqs[r].patient_id
                      /\ anomalies'[k].anomaly_type = m
                      /\ anomalies'[k].timestamp = now
      ]_vars

\* The new notifications of a step, and the alert rows of a pair that are
\* recent at the instant of the step
NewNotified == SubSeq(notified', Len(notified) + 1, Len(notified'))
RecentOfPair(p, ty) ==
    {j \in PairAlerts(alerts, p, ty) : alerts[j].timestamp >= now - Hour}

\* C12: whatever becomes of the notification, an anomaly that is eligible
\* and not suppressed leaves its alert persisted, with is_sent false, and
\* check_and_create_alerts returns that alert.
C12_AlertSurvivesDispatchFailure ==
    [][\A r \in Slots : AlertStep(r) =>
         \A i \in 1..Len(reqs[r].anomalies) :
            LET a == reqs[r].anomalies[i]
                p == reqs[r].patient_id
            IN  (Eligible(a) /\ RecentOfPair(p, a.anomaly_type) = {})
                => /\ \E j \in PairAlerts(alerts', p, a.anomaly_type) :
                         /\ alerts'[j].timestamp = now
                         /\ alerts'[j].is_sent = FALSE
                   /\ \E k \in 1..Len(reqs'[r].alerts) :
                         reqs'[r].alerts[k].alert_type = a.anomaly_type
      ]_vars

\* C13: a persisted alert has is_sent true exactly when the delivery of its
\* notification was confirmed (the i-th notification is that of the i-th
\* alert).
C13_SentIffDelivered ==
    \A i \in 1..Len(alerts) :
        alerts[i].is_sent <=>
            (i <= Len(notified) /\ notified[i].email = "sent")

\* The anomalies of a call that are admitted: eligible, and of a pair with
\* no recent alert
Admitted(r) ==
    SelectSeq(reqs[r].anomalies,
              LAMBDA a : Eligible(a)
                         /\ RecentOfPair(reqs[r].patient_id, a.anomaly_type) = {})

\* C14: one call of check_and_create_alerts notifies each alert it admits
\* exactly once, in the order of admission, and notifies nothing else
\* (nothing for an INFO or a suppressed anomaly).
C14_OneNotificationPerAdmitted ==
    [][\A r \in Slots : AlertStep(r) =>
         /\ Len(NewNotified) = Len(Admitted(r))
         /\ \A k \in 1..Len(NewNotified) :
               /\ NewNotified[k].patient_id = reqs[r].patient_id
               /\ NewNotified[k].alert_type = Admitted(r)[k].anomaly_type
               /\ NewNotified[k].severity = Admitted(r)[k].severity
      ]_vars

\* The stored row of the sample of request r
SampleStored(r) ==
    \E k \in 1..Len(vitals) :
        /\ vitals[k].patient_id = reqs[r].patient_id
        /\ vitals[k].heart_rate = reqs[r].vitals_data.heart_rate
        /\ vitals[k].spo2 = reqs[r].vitals_data.spo2
        /\ vitals[k].device_id = NoDevice

\* C15: for an existing patient the sample is stored from the first step of
\* the request on, and the request ends with status 200, whatever detection
\* and the alert step did (an error of the database, the NameError of the
\* alert step).
C15_SampleStoredAndReturned ==
    \A r \in Slots :
        (reqs[r].pc # "idle" /\ reqs[r].patient_id \in patients) =>
            /\ SampleStored(r)
            /\ reqs[r].pc = "done" => reqs[r].status = 200

\* A request whose commit of anomalies failed and one whose alert step
\* raised have both ended.
C15_Witness ==
    /\ reqs[1].pc = "done" /\ reqs[1].error = "detect"
    /\ reqs[2].pc = "done" /\ reqs[2].error = "alerts"
    /\ SampleStored(1) /\ SampleStored(2)

\* The anomalies of a list that have a given type
OfType(list, ty) == {k \in 1..Len(list) : list[k].anomaly_type = ty}

\* C16: the threshold detector raises no error and emits exactly one anomaly
\* for each key of the sample that has a threshold entry and a non-null
\* value strictly outside [min, max], and none for any other key (a value on
\* a bound, a null value, a key without an entry).
C16_OneAnomalyPerViolatingKey ==
    [][\A r \in Slots : DetectStep(r) =>
         /\ reqs'[r].error = "none"
         /\ \A i \in 1..Len(MetricOrder) :
               LET key == MetricOrder[i]
                   v   == reqs[r].vitals_data[key]
               IN  Cardinality(OfType(reqs'[r].all_anomalies, key)) =
                       IF /\ key \in DOMAIN thresholds'
                          /\ v # None
                          /\ \/ v < thresholds'[key].min
                             \/ v > thresholds'[key].max
                       THEN 1 ELSE 0
      ]_vars

\* The threshold anomalies of the table
ThresholdRows ==
    {k \in 1..Len(anomalies) : anomalies[k].description.kind = "threshold"}

\* C17: a threshold anomaly at distance a outside a range of width w > 0
\* (d = a / w) is CRITICAL when d > 0.5, WARNING when 0.2 < d <= 0.5 and INFO
\* otherwise.
C17_SeverityByDeviation ==
    \A k \in ThresholdRows :
        LET a == anomalies[k].description.amount
            w == anomalies[k].description.max - anomalies[k].description.min
        IN  w > 0 =>
               anomalies[k].severity =
                   IF 2 * a > w THEN CRITICAL
                   ELSE IF 5 * a > w THEN WARNING
                   ELSE INFO

\* With the default ranges: heart rate 180 is CRITICAL and 130 is INFO, spo2
\* 85 (d = 0.5) is WARNING and 88 (d = 0.2) is INFO.
C17_Witness ==
    /\ \E k \in ThresholdRows :
          /\ anomalies[k].anomaly_type = "heart_rate"
          /\ anomalies[k].description.amount = 60
          /\ anomalies[k].description.max = 120
          /\ anomalies[k].description.min = 50
          /\ anomalies[k].severity = CRITICAL
    /\ \E k \in ThresholdRows :
          /\ anomalies[k].anomaly_type = "heart_rate"
          /\ anomalies[k].description.amount = 10
          /\ anomalies[k].severity = INFO
    /\ \E k \in ThresholdRows :
          /\ anomalies[k].anomaly_type = "spo2"
          /\ anomalies[k].description.amount = 5
          /\ anomalies[k].description.min = 90
          /\ anomalies[k].severity = WARNING
    /\ \E k \in ThresholdRows :
          /\ anomalies[k].anomaly_type = "spo2"
          /\ anomalies[k].description.amount = 2
          /\ anomalies[k].severity = INFO

\* The readings of patient p in the seven days before instant t
InWindow(p, t) ==
    {k \in 1..Len(vitals) : /\ vitals[k].patient_id = p
                            /\ vitals[k].timestamp >= t - Week
                            /\ vitals[k].timestamp <= t}

\* The statistical anomalies of a list
StatisticalOf(list) ==
    {k \in 1..Len(list) : list[k].description.kind = "statistical"}

\* C18: a call that finds fewer than 10 readings of the patient in the
\* seven-day window returns no statistical anomaly, for every sample, and
\* raises no error of its own (the call fails only if the threshold detector
\* does).
C18_NoStatisticsUnderTenReadings ==
    [][\A r \in Slots :
         (DetectStep(r) /\ Cardinality(InWindow(reqs[r].patient_id, now)) < 10)
         => /\ StatisticalOf(reqs'[r].all_anomalies) = {}
            /\ \A k \in (Len(anomalies) + 1)..Len(anomalies') :
                  anomalies'[k].description.kind # "statistical"
            /\ reqs'[r].error = "detect" =>
                  \E m \in Metrics : thresholds'[m].max = thresholds'[m].min
      ]_vars

\* A call has returned for a patient with eleven readings, nine of them in
\* the window, and a spo2 of 80 against eight of 97: no statistical anomaly.
C18_Witness ==
    \E r \in Slots :
        /\ reqs[r].pc = "done" /\ reqs[r].error = "alerts"
        /\ reqs[r].vitals_data.spo2 = 80
        /\ Len(vitals) = 11
        /\ Cardinality(InWindow(reqs[r].patient_id, now)) = 9
        /\ StatisticalOf(reqs[r].all_anomalies) = {}

\* The non-null values of metric m among the readings of p in the window
WindowValues(p, t, m) ==
    {vitals[k][m] : k \in {j \in InWindow(p, t) : vitals[j][m] # None}}
WindowCount(p, t, m) ==
    Cardinality({j \in InWindow(p, t) : vitals[j][m] # None})

\* The sample of request r with every metric but m left out
Only(r, m) ==
    [key \in DOMAIN reqs[r].vitals_data |->
        IF key \in DfColumns /\ key # m THEN None
        ELSE reqs[r].vitals_data[key]]

\* C19: in a call whose statistical detector runs, a metric with fewer than
\* 5 non-null values in the window, or whose values are all equal (standard
\* deviation zero), gives no statistical anomaly; and every metric gives the
\* statistical anomaly it gives when it is the only metric of the sample, so
\* a skipped metric does not stop the evaluation of the others.
C19_SkippedMetricStopsNothing ==
    [][\A r \in Slots : (DetectStep(r) /\ reqs'[r].error = "none") =>
         \A m \in DfColumns :
            LET p  == reqs[r].patient_id
                ty == m \o "_statistical"
            IN  /\ ( \/ WindowCount(p, now, m) < 5
                     \/ Cardinality(WindowValues(p, now, m)) <= 1 )
                   => OfType(reqs'[r].all_anomalies, ty) = {}
                /\ DetectStatisticalAnomalies(vitals, p, Only(r, m), now) # <<>>
                   => OfType(reqs'[r].all_anomalies, ty) # {}
      ]_vars

\* A call has returned whose sample has a heart rate equal to every earlier
\* heart rate (standard deviation zero) and a spo2 far from the earlier ones:
\* no statistical anomaly of the heart rate, one of the spo2.
C19_Witness ==
    \E r \in Slots :
        /\ reqs[r].pc = "done"
        /\ reqs[r].vitals_data.heart_rate = 75
        /\ WindowCount(reqs[r].patient_id, now, "heart_rate") >= 10
        /\ WindowValues(reqs[r].patient_id, now, "heart_rate") = {75}
        /\ OfType(reqs[r].all_anomalies, "heart_rate_statistical") = {}
        /\ OfType(reqs[r].all_anomalies, "spo2_statistical") # {}

\* The statistical anomalies of the table
StatisticalRows == StatisticalOf(anomalies)

\* C20: every statistical anomaly has z > 2.5 (z^2 > 25/4), is CRITICAL when
\* z > 3 (z^2 > 9) and WARNING otherwise, and is never INFO.
C20_StatisticalSeverity ==
    \A k \in StatisticalRows :
        LET z2 == anomalies[k].description.z2
        IN  /\ 4 * z2.num > 25 * z2.den
            /\ anomalies[k].severity =
                   IF z2.num > 9 * z2.den THEN CRITICAL ELSE WARNING
            /\ anomalies[k].severity # INFO
            /\ Eligible(anomalies[k])

\* The table holds a statistical anomaly with z = 9/sqrt(10) (10 values, one
\* apart: WARNING) and one with z = 10/sqrt(11) (11 values: CRITICAL).
C20_Witness ==
    /\ \E k \in StatisticalRows :
          /\ anomalies[k].description.z2 = [num |-> 81, den |-> 10]
          /\ anomalies[k].severity = WARNING
    /\ \E k \in StatisticalRows :
          /\ anomalies[k].description.z2 = [num |-> 100, den |-> 11]
          /\ anomalies[k].severity = CRITICAL


(***************************************************************************)
(* The patient and alert API                                               *)
(***************************************************************************)
\* A step of acknowledge_alert that changed the state
AcknowledgeStep == resp'.op = "acknowledge_alert" /\ resp' # resp

\* A step of create_patient that changed the state
CreatePatientStep == resp'.op = "create_patient" /\ resp' # resp

\* C28: an alert is acknowledged at most once.  The first acknowledgement of
\* an alert sets is_acknowledged, acknowledged_by and acknowledged_at; a
\* later one is answered 400 and leaves the three fields as they are; an
\* unknown alert_id is answered 404 and changes no alert; and no step of any
\* operation resets an acknowledgement.
C28_AcknowledgedAtMostOnce ==
    [][/\ \A i \in 1..Len(alerts) :
              alerts[i].is_acknowledged =>
                  /\ i <= Len(alerts')
                  /\ alerts'[i].is_acknowledged
                  /\ alerts'[i].acknowledged_by = alerts[i].acknowledged_by
                  /\ alerts'[i].acknowledged_at = alerts[i].acknowledged_at
       /\ AcknowledgeStep =>
              LET id == resp'.alert_id
              IN  IF id \notin 1..Len(alerts)
                      THEN resp'.status = 404 /\ alerts' = alerts
                  ELSE IF alerts[id].is_acknowledged
                      THEN resp'.status = 400 /\ alerts' = alerts
                  ELSE /\ resp'.status = 200
                       /\ alerts' = [alerts EXCEPT ![id] =
                              [@ EXCEPT !.is_acknowledged = TRUE,
                                        !.acknowledged_by =
                                            resp'.acknowledged_by,
                                        !.acknowledged_at = now]]]_vars

\* A second acknowledgement, by another user and at a later time, was
\* answered 400 and the alert keeps the first one
C28_Witness ==
    /\ resp.op = "acknowledge_alert"
    /\ resp.status = 400
    /\ resp.alert_id \in 1..Len(alerts)
    /\ alerts[resp.alert_id].is_acknowledged
    /\ alerts[resp.alert_id].acknowledged_by # resp.acknowledged_by
    /\ alerts[resp.alert_id].acknowledged_at < now

\* C29: a create_patient whose patient_id already exists is answered 400
\* and leaves the patient table unchanged
C29_DuplicatePatientRejected ==
    [][(CreatePatientStep /\ resp'.patient_id \in patients) =>
           /\ resp'.status = 400
           /\ patients' = patients]_vars


(***************************************************************************)
(* The overrides                                                           *)
(***************************************************************************)
\* C21: every anomaly a detection call returns has a confidence score in
\* [0, 1], and a threshold anomaly has a deviation fraction >= 0 (its amount
\* outside the range and the width of the range are both positive), under
\* every threshold map the overrides of the patient can produce.
C21_ConfidenceInUnitInterval ==
    \A r \in Slots : \A i \in 1..Len(reqs[r].all_anomalies) :
        LET a == reqs[r].all_anomalies[i]
        IN  /\ a.confidence_score.den > 0
            /\ a.confidence_score.num >= 0
            /\ a.confidence_score.num <= a.confidence_score.den
            /\ a.description.kind = "threshold" =>
                   /\ a.description.amount >= 0
                   /\ a.description.max - a.description.min > 0

\* C26: in a detection call of a patient, a metric whose configuration row
\* of that patient is inactive has the default bounds, and a bound that the
\* row leaves null is the default bound, whatever detection calls ran before.
C26_OverrideEndsWithConfiguration ==
    [][\A r \in Slots : DetectStep(r) =>
         \A i \in 1..Len(configs) :
            LET c == configs[i]
                d == DefaultThresholds[c.metric_name]
                t == thresholds'[c.metric_name]
            IN  c.patient_id = reqs[r].patient_id =>
                   /\ ~c.is_active => t = d
                   /\ c.min_threshold = None => t.min = d.min
                   /\ c.max_threshold = None => t.max = d.max
      ]_vars


\* The step of create_alert_configuration
ConfigStep == configs' # configs

\* C30: the configuration table holds at most one row per pair
\* (patient_id, metric_name), and a call for a pair that has a row changes
\* that row in place: the table keeps its length and its other rows, and the
\* row keeps its pair.
C30_OneRowPerPair ==
    [][/\ \A i, j \in 1..Len(configs') :
              (/\ configs'[i].patient_id = configs'[j].patient_id
               /\ configs'[i].metric_name = configs'[j].metric_name) => i = j
       /\ ConfigStep =>
              \/ /\ Len(configs') = Len(configs) + 1
                 /\ SubSeq(configs', 1, Len(configs)) = configs
                 /\ ConfigIndex(configs, configs'[Len(configs')].patient_id,
                                configs'[Len(configs')].metric_name) = {}
              \/ /\ Len(configs') = Len(configs)
                 /\ \E i \in 1..Len(configs) :
                       /\ configs'[i].patient_id = configs[i].patient_id
                       /\ configs'[i].metric_name = configs[i].metric_name
                       /\ \A j \in 1..Len(configs) :
                             j # i => configs'[j] = configs[j]
      ]_vars

\* Two patients have a row each for the same metric, and the row of the first
\* patient has been replaced in place: a detection call applied its earlier
\* content (min_threshold 94, active), and it now holds no min_threshold and
\* is inactive
C30_Witness ==
    /\ Len(configs) = 2
    /\ configs[1].patient_id # configs[2].patient_id
    /\ configs[1].metric_name = configs[2].metric_name
    /\ thresholds.spo2.min = 94
    /\ configs[1].patient_id = "P1"
    /\ configs[1].min_threshold = None
    /\ ~configs[1].is_active


(***************************************************************************)
(* The detectors as functions of the sample, the thresholds and the history*)
(***************************************************************************)
\* C22: the two detectors, run again on the sample of a detection call with
\* the threshold map and the history that the call left, return the
\* anomalies the call returned (types, severities, confidence scores) or
\* raise as it did, and the run leaves the threshold map and the history as
\* it found them.
C22_DetectorsIdempotent ==
    [][\A r \in Slots : DetectStep(r) =>
         LET p     == reqs[r].patient_id
             data  == reqs[r].vitals_data
             again == DetectThresholdAnomalies(data, thresholds')
         IN  /\ thresholds' = EffectiveThresholds(thresholds, configs, p)
             /\ vitals' = vitals
             /\ again.thresholds = thresholds'
             /\ again.raised = (reqs'[r].error = "detect")
             /\ ~again.raised =>
                    reqs'[r].all_anomalies =
                        again.out \o
                        DetectStatisticalAnomalies(vitals', p, data, now')
      ]_vars

\* A call has returned a threshold anomaly and a statistical anomaly, no
\* other request is in flight, and the detectors run on the present state
\* return the same list
C22_Witness ==
    /\ reqs[1].pc = "alerts" /\ reqs[2].pc = "idle"
    /\ StatisticalOf(reqs[1].all_anomalies) # {}
    /\ \E k \in 1..Len(reqs[1].all_anomalies) :
          reqs[1].all_anomalies[k].description.kind = "threshold"
    /\ reqs[1].all_anomalies =
           DetectThresholdAnomalies(reqs[1].vitals_data, thresholds).out \o
           DetectStatisticalAnomalies(vitals, reqs[1].patient_id,
                                      reqs[1].vitals_data, now)


\* C27: the sample of a detection call is not counted toward the minimum of
\* 10 readings: a call whose patient has fewer than 10 readings in the
\* seven-day window besides the sample itself returns no statistical anomaly.
C27_HistoryExcludesSample ==
    [][\A r \in Slots : DetectStep(r) =>
         (Cardinality(InWindow(reqs[r].patient_id, now)) - 1 < MinHistory =>
              StatisticalOf(reqs'[r].all_anomalies) = {})
      ]_vars


(***************************************************************************)
(* The dedup window                                                        *)
(***************************************************************************)
\* The anomalies of type ty and severity sev of request r
OfSeverity(r, ty, sev) ==
    {k \in 1..Len(reqs[r].anomalies) :
        /\ reqs[r].anomalies[k].anomaly_type = ty
        /\ reqs[r].anomalies[k].severity = sev}

\* C23: a persisting problem is never left without an alert for more than a
\* window: after check_and_create_alerts has processed a WARNING-or-higher
\* anomaly, the pair has an alert whose timestamp is within the last hour
\* (the one that suppressed the anomaly, or the one the anomaly created).
C23_RealertedOncePerWindow ==
    [][\A r \in Slots : AlertStep(r) =>
         \A i \in 1..Len(reqs[r].anomalies) :
            LET a == reqs[r].anomalies[i]
                p == reqs[r].patient_id
            IN  Eligible(a) =>
                   \E j \in PairAlerts(alerts', p, a.anomaly_type) :
                       /\ alerts'[j].timestamp >= now - Hour
                       /\ alerts'[j].timestamp <= now
      ]_vars

\* C24: a recent alert of another key suppresses nothing: a WARNING-or-higher
\* anomaly whose pair has no alert within the last hour, processed while an
\* alert of another patient or of another type is within the last hour,
\* creates a new alert of its pair.
C24_OtherKeysSuppressNothing ==
    [][\A r \in Slots : AlertStep(r) =>
         \A i \in 1..Len(reqs[r].anomalies) :
            LET a  == reqs[r].anomalies[i]
                p  == reqs[r].patient_id
                ty == a.anomaly_type
            IN  ( /\ Eligible(a)
                  /\ \E j \in 1..Len(alerts) :
                        /\ alerts[j].timestamp >= now - Hour
                        /\ alerts[j].patient_id # p \/ alerts[j].alert_type # ty
                  /\ \A j \in PairAlerts(alerts, p, ty) :
                        alerts[j].timestamp < now - Hour )
                => \E j \in PairAlerts(alerts', p, ty) :
                       j > Len(alerts) /\ alerts'[j].timestamp = now
      ]_vars

\* C25: a CRITICAL anomaly processed less than an hour after a WARNING
\* anomaly of the same pair leaves the pair with the one alert made for the
\* WARNING anomaly, with its severity and its message.
C25_SuppressionIgnoresSeverity ==
    \A r1, r2 \in Slots :
        ( /\ reqs[r1].pc = "done" /\ reqs[r2].pc = "done"
          /\ Detected(r1) /\ Detected(r2)
          /\ reqs[r1].patient_id = reqs[r2].patient_id
          /\ DetectedAt(r1) < DetectedAt(r2)
          /\ DetectedAt(r2) < DetectedAt(r1) + Hour )
        => \A ty \in EligibleTypes(r1) \cap EligibleTypes(r2) :
              \A k \in OfSeverity(r1, ty, WARNING) :
                 OfSeverity(r2, ty, CRITICAL) # {} =>
                    /\ Cardinality(PairAlerts(alerts, reqs[r1].patient_id,
                                              ty)) = 1
                    /\ \A j \in PairAlerts(alerts, reqs[r1].patient_id, ty) :
                          /\ alerts[j].severity = WARNING
                          /\ alerts[j].message =
                                 GenerateAlertMessage(reqs[r1].anomalies[k])
                          /\ alerts[j].timestamp = DetectedAt(r1)

====
